---- MODULE Spec2Model ----
(***************************************************************************)
(* Model of the calibration-data alignment code of yac                     *)
(* (src/yac/lib/calib_data.cpp): the loader's ordering of the records of   *)
(* one camera, the two pairwise merge-joins (load_stereo_calib_data and    *)
(* extract_common_calib_data) and the multiway aligner                     *)
(* (load_multicam_calib_data), under Spec; the loading of the cameras'     *)
(* data that precedes the alignment, under SpecLoad; and the two parallel  *)
(* workers of preprocess_stereo_data, under SpecPre.                       *)
(*                                                                         *)
(* A grid (aprilgrid_t) is modelled by its timestamp and its tag ids.      *)
(* std::vector::operator[] is unchecked: a read at an index at or past the *)
(* end of a vector is undefined behaviour, modelled as either a crash or   *)
(* the read of an arbitrary grid.                                          *)
(***************************************************************************)
EXTENDS Integers, Sequences, FiniteSets, TLC

VARIABLES fn, nb_cams, input, grids, grid_indicies, calib_data, i, ts_pos, pc,
          retval, cam_idx, image_paths, worker, retvals

\* the state of the loading of the cameras' data: the value returned and the
\* number of cameras loaded
loadVars == <<retval, cam_idx>>

\* the state of preprocess_stereo_data
preVars == <<image_paths, worker, retvals>>

vars == <<fn, nb_cams, input, grids, grid_indicies, calib_data, i, ts_pos, pc,
          loadVars, preVars>>

(* ------------------------------ bounds --------------------------------- *)

\* timestamps of one digit are 2..MaxTs
MaxTs == 2

\* the timestamps of two digits are WideTs and 2 * WideTs: the file name of
\* WideTs sorts before "2", the one of 2 * WideTs after it
WideTs == 10

\* tag ids are 1..MaxId
MaxId == 2

\* load_multicam_calib_data is run with 2..MaxCams cameras
MaxCams == 2

Timestamps == (2..MaxTs) \cup {WideTs, 2 * WideTs}

TagIds == 1..MaxId

(* ------------------------------ helpers -------------------------------- *)

Min(S) == CHOOSE x \in S : \A y \in S : x <= y

Max(a, b) == IF a >= b THEN a ELSE b

RECURSIVE SetToSeq(_)
\* the elements of a set of integers in ascending order (std::set iteration)
SetToSeq(S) == IF S = {} THEN <<>> ELSE <<Min(S)>> \o SetToSeq(S \ {Min(S)})

\* strictly ascending sequences of tag ids (aprilgrid_t::ids)
IdSeqs == {SetToSeq(S) : S \in SUBSET TagIds}

Grids == [timestamp : Timestamps, ids : IdSeqs]

(* ------------------------------ loader --------------------------------- *)

RECURSIVE Digits(_)
\* the decimal digits of a timestamp as character codes ('0' is 48)
Digits(n) == IF n < 10 THEN <<48 + n>> ELSE Append(Digits(n \div 10), 48 + (n % 10))

\* the file name of the record of timestamp t: "<t>.csv"
Fname(t) == Digits(t) \o <<46, 99, 115, 118>>

RECURSIVE StrLess(_, _)
\* std::string operator<, the order std::sort uses on data_paths
StrLess(a, b) ==
  IF b = <<>> THEN FALSE
  ELSE IF a = <<>> THEN TRUE
  ELSE IF Head(a) # Head(b) THEN Head(a) < Head(b)
  ELSE StrLess(Tail(a), Tail(b))

RECURSIVE SortPaths(_)
\* std::sort(data_paths.begin(), data_paths.end()), on the timestamps that
\* name the files
SortPaths(S) ==
  IF S = {} THEN <<>>
  ELSE LET first == CHOOSE x \in S : \A y \in S \ {x} : StrLess(Fname(x), Fname(y))
       IN <<first>> \o SortPaths(S \ {first})

\* a data directory has one record per timestamp, dir[t] the tag ids detected.
\* The directories of a camera with images at the timestamps S that detects
\* the tags ids in an image or nothing
Dirs(S, ids) == [S -> {ids, <<>>}]

\* the directory of a camera that detects the tags ids in every image of S
UniformDir(S, ids) == [t \in S |-> ids]

\* the tags the cameras after the first detect: all but tag 1
OtherTags == SetToSeq(TagIds \ {1})

\* the tags the first camera detects: none, tag 1 only, the tags of the other
\* cameras, or all tags
Cam0Tags == {<<>>, <<1>>, OtherTags, SetToSeq(TagIds)}

\* the grids load_camera_calib_data appends, in data_paths order
load_camera_calib_data(dir) ==
  LET paths == SortPaths(DOMAIN dir)
  IN [k \in 1..Len(paths) |-> [timestamp |-> paths[k], ids |-> dir[paths[k]]]]

(* ---------------------------- intersection ----------------------------- *)

RECURSIVE RollingIntersect(_, _, _)
\* k-way sorted intersection by rolling minimum: s maps each input to its id
\* sequence, cur to its cursor
RollingIntersect(s, cur, acc) ==
  IF \E c \in DOMAIN s : cur[c] > Len(s[c]) THEN acc
  ELSE LET heads == {s[c][cur[c]] : c \in DOMAIN s}
           m == Min(heads)
       IN IF Cardinality(heads) = 1
          THEN RollingIntersect(s, [c \in DOMAIN s |-> cur[c] + 1], Append(acc, m))
          ELSE RollingIntersect(s, [c \in DOMAIN s |->
                                      IF s[c][cur[c]] = m THEN cur[c] + 1 ELSE cur[c]], acc)

\* aprilgrid_intersection: every grid of data keeps only the common tag ids
aprilgrid_intersection(data) ==
  LET common == RollingIntersect([c \in DOMAIN data |-> data[c].ids],
                                 [c \in DOMAIN data |-> 1], <<>>)
  IN [c \in DOMAIN data |-> [data[c] EXCEPT !.ids = common]]

(* ------------------------------- state --------------------------------- *)

Cams == 0..(nb_cams - 1)

\* cameras whose grid index is at or past the end of their grids
OutOfRange == {c \in Cams : grid_indicies[c] >= Len(grids[c])}

\* grids[cam_idx][grid_idx], gar[c] the grid a read past the end yields
GridAt(c, gar) ==
  IF grid_indicies[c] < Len(grids[c]) THEN grids[c][grid_indicies[c] + 1] ELSE gar[c]

\* grids without tags are not added
AddedM(out, data) ==
  IF data[0].ids = <<>> THEN out ELSE [c \in Cams |-> Append(out[c], data[c])]

\* emplace_back / push_back of the grids of data to the per-camera results
Added(out, data) == [c \in Cams |-> Append(out[c], data[c])]

\* the grids after the in-place update of the grids under the cursors
StoreAt(data) ==
  [c \in Cams |-> IF grid_indicies[c] < Len(grids[c])
                  THEN [grids[c] EXCEPT ![grid_indicies[c] + 1] = data[c]]
                  ELSE grids[c]]

Init ==
  /\ fn \in {"stereo", "extract", "multicam"}
  /\ nb_cams \in 2..MaxCams
  /\ fn # "multicam" => nb_cams = 2
  /\ \E S \in [Cams -> SUBSET Timestamps] : \E a \in Cam0Tags :
       \E dir0 \in IF fn = "multicam" THEN {UniformDir(S[0], a)} ELSE Dirs(S[0], a) :
         input = [c \in Cams |-> load_camera_calib_data(
                                   IF c = 0 THEN dir0 ELSE UniformDir(S[c], OtherTags))]
  /\ grids = input
  /\ grid_indicies = [c \in Cams |-> 0]
  /\ calib_data = [c \in Cams |-> <<>>]
  /\ i = 0
  /\ ts_pos = 1
  /\ pc = IF fn = "multicam" THEN "for" ELSE "loop"
  /\ retval = 0
  /\ cam_idx = nb_cams
  /\ image_paths = <<>>
  /\ worker = <<>>
  /\ retvals = <<>>

(* ------------------------------ pairwise ------------------------------- *)

\* size_t nb_detections = std::max(grids0.size(), grids1.size())
nb_detections == Max(Len(input[0]), Len(input[1]))

cam0_idx == grid_indicies[0]

cam1_idx == grid_indicies[1]

\* the test for detected tags is left out
AddToResultsM(f, grid0) == TRUE

\* "Add to results": load_stereo_calib_data adds a pair only if it has tags,
\* extract_common_calib_data adds every pair
AddToResults(f, grid0) == f = "extract" \/ Len(grid0.ids) > 0

\* the cursors are left where they are
StepBothM(idx) == idx

\* cam0_idx++; cam1_idx++ of the branch of equal timestamps
StepBoth(idx) == [idx EXCEPT ![0] = @ + 1, ![1] = @ + 1]

\* "Check if there's more data to go though"
NoMoreData(idx) == idx[0] >= Len(grids[0]) \/ idx[1] >= Len(grids[1])

\* the value extract_common_calib_data leaves in its arguments, when it keeps
\* them
ReturnedM(f, g, final) == g

\* what the function leaves in grids when it returns: extract_common_calib_data
\* replaces its arguments by the result
Returned(f, g, final) == IF f = "extract" THEN final ELSE g

\* one iteration of the merge-join loop of f
PairStep(f) ==
  /\ fn = f
  /\ pc = "loop"
  /\ i < nb_detections
  /\ \E gar \in [OutOfRange -> Grids] :
       LET grid0 == GridAt(0, gar)
           grid1 == GridAt(1, gar)
       IN IF grid0.timestamp = grid1.timestamp
          THEN LET idx  == StepBoth(grid_indicies)
                   data == aprilgrid_intersection([c \in Cams |-> GridAt(c, gar)])
                   g    == StoreAt(data)
                   out  == IF AddToResults(f, data[0])
                           THEN Added(calib_data, data)
                           ELSE calib_data
               IN /\ grid_indicies' = idx
                  /\ calib_data' = out
                  /\ IF NoMoreData(idx)
                     THEN /\ pc' = "done"
                          /\ grids' = Returned(f, g, out)
                          /\ i' = i
                     ELSE /\ pc' = "loop"
                          /\ grids' = g
                          /\ i' = i + 1
          ELSE /\ grid_indicies' = IF grid0.timestamp > grid1.timestamp
                                   THEN [grid_indicies EXCEPT ![1] = @ + 1]
                                   ELSE [grid_indicies EXCEPT ![0] = @ + 1]
               /\ i' = i + 1
               /\ UNCHANGED <<calib_data, grids, pc>>
  /\ UNCHANGED <<fn, nb_cams, input, ts_pos>>
  /\ UNCHANGED <<loadVars, preVars>>

load_stereo_calib_data == PairStep("stereo")

extract_common_calib_data == PairStep("extract")

\* the loop condition i < nb_detections fails: the function returns
PairReturn ==
  /\ fn \in {"stereo", "extract"}
  /\ pc = "loop"
  /\ i >= nb_detections
  /\ pc' = "done"
  /\ grids' = Returned(fn, grids, calib_data)
  /\ UNCHANGED <<fn, nb_cams, input, grid_indicies, calib_data, i, ts_pos>>
  /\ UNCHANGED <<loadVars, preVars>>

\* the next iteration reads past the end of a vector and the read faults
PairCrash ==
  /\ fn \in {"stereo", "extract"}
  /\ pc = "loop"
  /\ i < nb_detections
  /\ OutOfRange # {}
  /\ pc' = "crashed"
  /\ UNCHANGED <<fn, nb_cams, input, grids, grid_indicies, calib_data, i, ts_pos>>
  /\ UNCHANGED <<loadVars, preVars>>

(* ------------------------------ multiway ------------------------------- *)

\* std::set<timestamp_t> timestamps, in iteration order
timestamps ==
  SetToSeq(UNION {{grids[c][k].timestamp : k \in 1..Len(grids[c])} : c \in Cams})

\* std::map<timestamp_t, int> ts_count: one increment per grid of that timestamp
ts_count(t) ==
  Cardinality({ck \in Cams \X (1..Cardinality(Timestamps)) :
                 ck[2] <= Len(grids[ck[1]]) /\ grids[ck[1]][ck[2]].timestamp = t})

\* the candidate timestamp of the current iteration of the loop over timestamps
HasTs == ts_pos <= Len(timestamps)

ts == timestamps[ts_pos]

\* the comparison with nb_cams is the wrong one
SkippedM(t) == ts_count(t) > nb_cams

\* if (ts_count[ts] != nb_cams): the timestamp is skipped
Skipped(t) == ts_count(t) # nb_cams

\* ready[cam_idx]: the grid under the camera's cursor has timestamp t; hit is
\* the set of cameras whose read past the end yields timestamp t
ready(c, t, hit) ==
  IF grid_indicies[c] < Len(grids[c])
  THEN grids[c][grid_indicies[c] + 1].timestamp = t
  ELSE c \in hit

\* std::all_of(ready.begin(), ready.end(), ...)
AllReady(t, hit) == \A c \in Cams : ready(c, t, hit)

\* at label try_again: entered from the loop head for a timestamp that is not
\* skipped, or by goto
AtTryAgain ==
  \/ pc = "try"
  \/ pc = "for" /\ HasTs /\ ~Skipped(ts)

\* the cursors after a frame is added, when only the first camera's is stepped
AdvanceAllM(idx) == [c \in Cams |-> IF c = 0 THEN idx[c] + 1 ELSE idx[c]]

\* grid_indicies[cam_idx]++ for every camera, after a frame is added
AdvanceAll(idx) == [c \in Cams |-> idx[c] + 1]

\* the cursor after the pass, when only the cursors at a smaller timestamp are
\* stepped
BumpedM(c, t, hit) ==
  IF grid_indicies[c] < Len(grids[c]) /\ grids[c][grid_indicies[c] + 1].timestamp < t
  THEN grid_indicies[c] + 1
  ELSE grid_indicies[c]

\* the cursor of camera c after the pass of the advance loop over it
Bumped(c, t, hit) ==
  IF ready(c, t, hit) THEN grid_indicies[c] ELSE grid_indicies[c] + 1

\* cameras at which the advance loop meets its termination criteria
Exhausted(t, hit) == {c \in Cams : Bumped(c, t, hit) >= Len(grids[c])}

\* only a subset of the cameras has this timestamp: step the cursors that
\* point at it and continue with the next timestamp
MultiSkip ==
  /\ fn = "multicam"
  /\ pc = "for"
  /\ HasTs
  /\ Skipped(ts)
  /\ \E hit \in SUBSET OutOfRange :
       grid_indicies' = [c \in Cams |-> IF ready(c, ts, hit)
                                        THEN grid_indicies[c] + 1
                                        ELSE grid_indicies[c]]
  /\ ts_pos' = ts_pos + 1
  /\ UNCHANGED <<fn, nb_cams, input, grids, calib_data, i, pc>>
  /\ UNCHANGED <<loadVars, preVars>>

\* all cameras are ready: intersect the grids under the cursors, add them to
\* the result and step every cursor
MultiEmit ==
  /\ fn = "multicam"
  /\ AtTryAgain
  /\ \E gar \in [OutOfRange -> [timestamp : {ts}, ids : IdSeqs]] :
       /\ AllReady(ts, OutOfRange)
       /\ LET data == aprilgrid_intersection([c \in Cams |-> GridAt(c, gar)])
          IN /\ grids' = StoreAt(data)
             /\ calib_data' = Added(calib_data, data)
  /\ grid_indicies' = AdvanceAll(grid_indicies)
  /\ ts_pos' = ts_pos + 1
  /\ pc' = "for"
  /\ UNCHANGED <<fn, nb_cams, input, i>>
  /\ UNCHANGED <<loadVars, preVars>>

\* not all cameras are ready: step the cursors that are not ready, return as
\* soon as a cursor is at the end of its grids, else try the timestamp again
MultiAdvance ==
  /\ fn = "multicam"
  /\ AtTryAgain
  /\ \E hit \in SUBSET OutOfRange :
       /\ ~AllReady(ts, hit)
       /\ IF Exhausted(ts, hit) # {}
          THEN LET last == Min(Exhausted(ts, hit))
               IN /\ grid_indicies' = [c \in Cams |-> IF c <= last
                                                      THEN Bumped(c, ts, hit)
                                                      ELSE grid_indicies[c]]
                  /\ pc' = "done"
          ELSE /\ grid_indicies' = [c \in Cams |-> Bumped(c, ts, hit)]
               /\ pc' = "try"
  /\ UNCHANGED <<fn, nb_cams, input, grids, calib_data, i, ts_pos>>
  /\ UNCHANGED <<loadVars, preVars>>

\* the loop over timestamps is over: return 0
MultiReturn ==
  /\ fn = "multicam"
  /\ pc = "for"
  /\ ~HasTs
  /\ pc' = "done"
  /\ UNCHANGED <<fn, nb_cams, input, grids, grid_indicies, calib_data, i, ts_pos>>
  /\ UNCHANGED <<loadVars, preVars>>

\* the next read of grids[cam_idx][grid_idx] is past the end and faults
MultiCrash ==
  /\ fn = "multicam"
  /\ \/ pc = "try"
     \/ pc = "for" /\ HasTs
  /\ OutOfRange # {}
  /\ pc' = "crashed"
  /\ UNCHANGED <<fn, nb_cams, input, grids, grid_indicies, calib_data, i, ts_pos>>
  /\ UNCHANGED <<loadVars, preVars>>

Next ==
  \/ load_stereo_calib_data
  \/ extract_common_calib_data
  \/ PairReturn
  \/ PairCrash
  \/ MultiSkip
  \/ MultiEmit
  \/ MultiAdvance
  \/ MultiReturn
  \/ MultiCrash

Spec == Init /\ [][Next]_vars

(* ------------------------- loading of the cameras ----------------------- *)

\* load_stereo_calib_data and load_multicam_calib_data before any directory is
\* read: input[c] is what camera c's directory delivers when it loads
InitLoad ==
  /\ fn \in {"stereo", "multicam"}
  /\ nb_cams \in 2..MaxCams
  /\ fn # "multicam" => nb_cams = 2
  /\ \E S \in [Cams -> SUBSET Timestamps] : \E a \in Cam0Tags :
       \E dir0 \in IF fn = "multicam" THEN {UniformDir(S[0], a)} ELSE Dirs(S[0], a) :
         input = [c \in Cams |-> load_camera_calib_data(
                                   IF c = 0 THEN dir0 ELSE UniformDir(S[c], OtherTags))]
  /\ grids = [c \in Cams |-> <<>>]
  /\ grid_indicies = [c \in Cams |-> 0]
  /\ calib_data = [c \in Cams |-> <<>>]
  /\ i = 0
  /\ ts_pos = 1
  /\ pc = "load"
  /\ retval = 0
  /\ cam_idx = 0
  /\ image_paths = <<>>
  /\ worker = <<>>
  /\ retvals = <<>>

\* where the caller goes on when the load of every camera is forgotten to be
\* tested
AfterLoadM(r, c) ==
  IF c + 1 = nb_cams THEN (IF fn = "multicam" THEN "for" ELSE "loop") ELSE "load"

\* where the caller goes on after load_camera_calib_data of camera c has
\* returned r: it returns -1 at once when r is not 0, loads the next camera,
\* or starts to align after the last one
AfterLoad(r, c) ==
  IF r # 0 THEN "failed"
  ELSE IF c + 1 = nb_cams THEN (IF fn = "multicam" THEN "for" ELSE "loop")
  ELSE "load"

\* the grids load_camera_calib_data may have appended when it fails: none
\* (missing directory, failed traversal), or those before the record that
\* cannot be read
LoadedBeforeFailure(s) == {SubSeq(s, 1, k) : k \in 0..Max(0, Len(s) - 1)}

\* the next camera's data are loaded
LoadCamera ==
  /\ pc = "load"
  /\ cam_idx < nb_cams
  /\ retval' = 0
  /\ grids' = [grids EXCEPT ![cam_idx] = input[cam_idx]]
  /\ cam_idx' = cam_idx + 1
  /\ pc' = AfterLoad(0, cam_idx)
  /\ UNCHANGED <<fn, nb_cams, input, grid_indicies, calib_data, i, ts_pos, preVars>>

\* the load of the next camera's data fails; load_stereo_calib_data's grids0
\* or grids1 keep what was appended, load_multicam_calib_data's data is dropped
LoadFail ==
  /\ pc = "load"
  /\ cam_idx < nb_cams
  /\ retval' = -1
  /\ \E part \in LoadedBeforeFailure(input[cam_idx]) :
       grids' = IF fn = "stereo" THEN [grids EXCEPT ![cam_idx] = part] ELSE grids
  /\ pc' = AfterLoad(-1, cam_idx)
  /\ UNCHANGED <<fn, nb_cams, input, grid_indicies, calib_data, i, ts_pos, cam_idx, preVars>>

NextLoad ==
  \/ LoadCamera
  \/ LoadFail
  \/ load_stereo_calib_data
  \/ PairReturn
  \/ PairCrash
  \/ MultiSkip
  \/ MultiEmit
  \/ MultiAdvance
  \/ MultiReturn
  \/ MultiCrash

SpecLoad == InitLoad /\ [][NextLoad]_vars

(* ------------------------- preprocess_stereo_data ----------------------- *)

\* the most images a camera's directory holds
MaxImages == 2

\* the two iterations of the parallel loop, one per camera
Workers == {0, 1}

\* preprocess_stereo_data has set retvals to {0, 0} and reaches the parallel
\* loop; image_paths[w] is the number of images of camera w
InitPre ==
  /\ fn = "preprocess"
  /\ nb_cams = 2
  /\ input = <<>>
  /\ grids = <<>>
  /\ grid_indicies = <<>>
  /\ calib_data = <<>>
  /\ i = 0
  /\ ts_pos = 1
  /\ pc = "fork"
  /\ retval = 0
  /\ cam_idx = 0
  /\ image_paths \in [Workers -> 0..MaxImages]
  /\ worker = [w \in Workers |-> [pc |-> "paths", i |-> 0, ret |-> 0]]
  /\ retvals = [w \in Workers |-> 0]

\* the slot written when every iteration writes the first one
SlotM(w) == 0

\* the slot of retvals iteration w writes: retvals[i]
Slot(w) == w

\* get_camera_image_paths: the directory is listed, or the worker's call
\* returns -1
WorkerPaths(w) ==
  /\ worker[w].pc = "paths"
  /\ \/ worker' = [worker EXCEPT ![w].pc = "images"]
     \/ worker' = [worker EXCEPT ![w].pc = "return", ![w].ret = -1]
  /\ UNCHANGED retvals

\* one iteration of the loop over the images: the image is already
\* preprocessed or is detected and saved, or saving fails and the call
\* returns -1
WorkerImage(w) ==
  /\ worker[w].pc = "images"
  /\ worker[w].i < image_paths[w]
  /\ \/ worker' = [worker EXCEPT ![w].i = @ + 1]
     \/ worker' = [worker EXCEPT ![w].pc = "return", ![w].ret = -1]
  /\ UNCHANGED retvals

\* after the last image the call returns 0
WorkerLoopEnd(w) ==
  /\ worker[w].pc = "images"
  /\ worker[w].i >= image_paths[w]
  /\ worker' = [worker EXCEPT ![w].pc = "return", ![w].ret = 0]
  /\ UNCHANGED retvals

\* retvals[i] = preprocess_camera_data(...)
WorkerStore(w) ==
  /\ worker[w].pc = "return"
  /\ retvals' = [retvals EXCEPT ![Slot(w)] = worker[w].ret]
  /\ worker' = [worker EXCEPT ![w].pc = "done"]

\* a step of one of the two workers of the parallel loop
WorkerStep ==
  /\ fn = "preprocess"
  /\ pc = "fork"
  /\ \E w \in Workers :
       \/ WorkerPaths(w)
       \/ WorkerImage(w)
       \/ WorkerLoopEnd(w)
       \/ WorkerStore(w)
  /\ UNCHANGED <<fn, nb_cams, input, grids, grid_indicies, calib_data, i, ts_pos, pc>>
  /\ UNCHANGED <<loadVars, image_paths>>

\* the end of the parallel loop, where both workers are waited for, and the
\* return statement
PreReturn ==
  /\ fn = "preprocess"
  /\ pc = "fork"
  /\ \A w \in Workers : worker[w].pc = "done"
  /\ retval' = IF retvals[0] = 0 /\ retvals[1] = 0 THEN 0 ELSE -1
  /\ pc' = "done"
  /\ UNCHANGED <<fn, nb_cams, input, grids, grid_indicies, calib_data, i, ts_pos>>
  /\ UNCHANGED <<cam_idx, preVars>>

NextPre ==
  \/ WorkerStep
  \/ PreReturn

SpecPre == InitPre /\ [][NextPre]_vars

(* ------------------------------ properties ----------------------------- *)

PairFn == fn \in {"stereo", "extract"}

\* the timestamps of the grids of a sequence
TsSet(s) == {s[k].timestamp : k \in 1..Len(s)}

\* the timestamps of a sequence of grids are strictly increasing
Increasing(s) == \A k \in 1..(Len(s) - 1) : s[k].timestamp < s[k + 1].timestamp

\* every camera's loaded grids have strictly increasing timestamps
SortedInput == \A c \in Cams : Increasing(input[c])

\* every camera loaded at least one grid
NonEmptyInput == \A c \in Cams : input[c] # <<>>

\* the positions of the frames emitted so far
Frames == 1..Len(calib_data[0])

\* the number of cameras whose loaded grids contain timestamp t
StreamsWith(t) == Cardinality({c \in Cams : t \in TsSet(input[c])})

\* the tag ids camera c loaded for timestamp t, as a set
OrigIds(c, t) ==
  LET k == CHOOSE k \in 1..Len(input[c]) : input[c][k].timestamp = t
  IN {input[c][k].ids[j] : j \in 1..Len(input[c][k].ids)}

IdSet(g) == {g.ids[j] : j \in 1..Len(g.ids)}

\* C1: in the pairwise aligners, for inputs with strictly increasing
\* timestamps, the two grids of every emitted pair have the same timestamp and
\* that timestamp is one both inputs contain.
PairOutputInBothInputs ==
  (PairFn /\ SortedInput) =>
    \A k \in Frames :
      /\ calib_data[0][k].timestamp = calib_data[1][k].timestamp
      /\ calib_data[0][k].timestamp \in TsSet(input[0]) \cap TsSet(input[1])

\* C2: for inputs with strictly increasing timestamps, the timestamps of the
\* emitted frames are strictly increasing, in all three aligners.
OutputStrictlyIncreasing ==
  SortedInput => \A c \in Cams : Increasing(calib_data[c])

OutputStrictlyIncreasingWitness ==
  /\ fn = "stereo"
  /\ pc = "done"
  /\ SortedInput
  /\ Len(calib_data[0]) = 2

\* C3: the number of emitted frames is at most the length of the shortest
\* input stream, for streams of any lengths, empty streams included.
OutputAtMostShortest ==
  \A c \in Cams : Len(calib_data[0]) <= Len(input[c])

\* C4: the pairwise loop, here on non-empty sequences, runs an iteration only
\* while both cursors are inside their sequences (so it never reads at or past
\* the end), and it has stopped only when a cursor is at the end of its
\* sequence.
PairStopsAtEnd ==
  (PairFn /\ NonEmptyInput) =>
    /\ (pc = "loop" /\ i < nb_detections) => OutOfRange = {}
    /\ pc = "done" => \E c \in Cams : grid_indicies[c] >= Len(input[c])
    /\ pc # "crashed"

\* C5: the multiway aligner emits frames only for timestamps that all nb_cams
\* streams contain, and tries (label try_again) only such timestamps.
PrefilterOnlyCommon ==
  fn = "multicam" =>
    /\ \A k \in Frames : \A c \in Cams :
         StreamsWith(calib_data[c][k].timestamp) = nb_cams
    /\ pc = "try" => StreamsWith(ts) = nb_cams

PrefilterOnlyCommonWitness ==
  /\ fn = "multicam"
  /\ calib_data[0] # <<>>
  /\ \E p \in 1..(ts_pos - 1) :
       /\ StreamsWith(timestamps[p]) = nb_cams - 1
       /\ timestamps[p] < calib_data[0][Len(calib_data[0])].timestamp

\* C6: the multiway aligner adds a frame only in a state where every camera's
\* cursor is inside its grids at a grid of the candidate timestamp; the grids
\* added carry that timestamp and every cursor advances by exactly one.
EmitOnlyWhenAllReady ==
  [][(fn = "multicam" /\ calib_data' # calib_data) =>
       /\ \A c \in Cams :
            /\ grid_indicies[c] < Len(grids[c])
            /\ grids[c][grid_indicies[c] + 1].timestamp = ts
       /\ \A c \in Cams :
            /\ Len(calib_data'[c]) = Len(calib_data[c]) + 1
            /\ calib_data'[c][Len(calib_data'[c])].timestamp = ts
            /\ grid_indicies'[c] = grid_indicies[c] + 1]_vars

\* C7: with non-empty, strictly increasing streams the multiway aligner never
\* reads a stream at a cursor at or past its end, does not fail, and emits at
\* most as many frames as the shortest stream has grids.
MultiHaltsAtExhaustion ==
  (fn = "multicam" /\ SortedInput /\ NonEmptyInput) =>
    /\ (pc = "try" \/ (pc = "for" /\ HasTs)) => OutOfRange = {}
    /\ pc # "crashed"
    /\ \A c \in Cams : Len(calib_data[0]) <= Len(input[c])

FrameTagsAreIntersection ==
  \A k \in Frames : \A c \in Cams :
    LET t == calib_data[c][k].timestamp
    IN /\ calib_data[c][k].ids = calib_data[0][k].ids
       /\ StreamsWith(t) = nb_cams
       /\ IdSet(calib_data[c][k]) = {j \in TagIds : \A d \in Cams : j \in OrigIds(d, t)}

FailFastLoading ==
  /\ retval # 0 => pc = "failed"
  /\ pc = "failed" =>
       /\ retval = -1
       /\ calib_data = [c \in Cams |-> <<>>]
       /\ grid_indicies = [c \in Cams |-> 0]
       /\ i = 0
       /\ ts_pos = 1
  /\ pc \notin {"load", "failed"} => cam_idx = nb_cams /\ retval = 0

\* the load of the last camera has failed after the other cameras' data, which
\* share a timestamp, were loaded
FailFastLoadingWitness ==
  /\ pc = "failed"
  /\ cam_idx = nb_cams - 1
  /\ grids[0] # <<>>
  /\ TsSet(input[0]) \cap TsSet(input[1]) # {}

\* C14 as stated: every sequence load_camera_calib_data has produced is in
\* strictly increasing order of timestamp (ascending, without duplicates),
\* whatever the widths of the timestamps in the file names.
LoaderSortsByTimestamp ==
  pc = "load" => \A c \in Cams : c < cam_idx => Increasing(grids[c])

\* C13 as stated: when the cameras' streams (here non-empty ones, in
\* increasing order) share no timestamp, the pairwise and the multiway aligner
\* never read a stream past its end, do not fault, emit nothing and return.
NoOverlapIsNoError ==
  (/\ SortedInput
   /\ NonEmptyInput
   /\ \A t \in Timestamps : StreamsWith(t) < nb_cams) =>
    /\ pc # "crashed"
    /\ Frames = {}
    /\ (pc = "loop" /\ i < nb_detections) => OutOfRange = {}
    /\ (pc = "try" \/ (pc = "for" /\ HasTs)) => OutOfRange = {}

RECURSIVE Unpassed(_)
Unpassed(c) ==
  IF c >= nb_cams THEN 0
  ELSE Max(0, Len(grids[c]) - grid_indicies[c]) + Unpassed(c + 1)

\* the timestamps the loop over the timestamps can still visit (there are at
\* most as many as Timestamps has), plus the grids no cursor has passed yet,
\* plus one while the function runs
Measure ==
  (Cardinality(Timestamps) + 1 - ts_pos)
  + Unpassed(0)
  + (IF pc \in {"for", "try"} THEN 1 ELSE 0)

\* C16: every run of load_multicam_calib_data ends, and goto try_again is
\* taken boundedly often: every step (a skipped timestamp, an added frame, a
\* pass of the advance loop, the return, a fault) makes the natural number
\* Measure smaller, because it moves to the next timestamp, or steps a cursor
\* over a grid, or ends the run; so a run has at most Measure steps.
MultiTerminates ==
  [][fn = "multicam" => (Measure' < Measure /\ Measure' >= 0)]_vars

\* the function has returned after it added a frame behind a grid of a greater
\* timestamp, which only a pass of the advance loop steps over
MultiTerminatesWitness ==
  /\ fn = "multicam"
  /\ pc = "done"
  /\ \E c \in Cams : \E k \in 1..Len(grids[c]) : \E f \in Frames :
       /\ k < grid_indicies[c]
       /\ grids[c][k].timestamp > calib_data[c][f].timestamp

\* C17: in preprocess_stereo_data each worker writes only its own slot of
\* retvals, so under every interleaving a slot holds 0 until its worker has
\* stored its result and that result afterwards, and the call returns 0
\* exactly when both workers' calls returned 0 and -1 when at least one
\* returned -1.
StereoPreprocessResult ==
  /\ \A w \in Workers :
       retvals[w] = IF worker[w].pc = "done" THEN worker[w].ret ELSE 0
  /\ pc = "done" =>
       /\ retval \in {0, -1}
       /\ retval = 0 <=> \A w \in Workers : worker[w].ret = 0

\* the call has returned -1 after the first camera's worker succeeded and the
\* second one failed at its second image
StereoPreprocessResultWitness ==
  /\ pc = "done"
  /\ retval = -1
  /\ worker[0].ret = 0
  /\ image_paths[0] > 0
  /\ worker[1].ret = -1
  /\ worker[1].i = 1

\* C18 as stated: when a pairwise aligner has returned on inputs with strictly
\* increasing timestamps, every timestamp both inputs contain has a pair in
\* the output of extract_common_calib_data, and one in the output of
\* load_stereo_calib_data when the two grids have a tag in common.
PairwiseComplete ==
  (PairFn /\ SortedInput /\ pc = "done") =>
    \A t \in TsSet(input[0]) \cap TsSet(input[1]) :
      (fn = "extract" \/ OrigIds(0, t) \cap OrigIds(1, t) # {}) =>
        \E k \in Frames : calib_data[0][k].timestamp = t

\* C19: when the multiway aligner has ended on streams with strictly
\* increasing timestamps, the timestamps of the emitted frames are, in
\* ascending order and each once, exactly the timestamps every stream
\* contains.
MultiwayComplete ==
  (fn = "multicam" /\ SortedInput /\ pc \in {"done", "crashed"}) =>
    \A c \in Cams :
      [k \in Frames |-> calib_data[c][k].timestamp]
        = SetToSeq({t \in Timestamps : StreamsWith(t) = nb_cams})

\* the multiway aligner has returned a frame for a timestamp that follows one
\* only some of the streams contain
MultiwayCompleteWitness ==
  /\ fn = "multicam"
  /\ SortedInput
  /\ pc = "done"
  /\ Len(calib_data[0]) >= 1
  /\ \E t \in Timestamps :
       /\ StreamsWith(t) \in 1..(nb_cams - 1)
       /\ t < calib_data[0][Len(calib_data[0])].timestamp

\* C20: on streams with strictly increasing timestamps, when the loop over
\* the timestamps starts a candidate every cursor inside its stream points at
\* the first grid whose timestamp is not less than the candidate; at
\* try_again every cursor is inside its stream and ready, and the advance
\* loop with its goto try_again is never run.
CursorAtFirstNotLess ==
  (fn = "multicam" /\ SortedInput) =>
    /\ pc # "try"
    /\ (pc = "for" /\ HasTs) =>
         \A c \in Cams : \A k \in 1..Len(grids[c]) :
           (k <= grid_indicies[c]) <=> (grids[c][k].timestamp < ts)
    /\ AtTryAgain =>
         /\ OutOfRange = {}
         /\ \A c \in Cams : grids[c][grid_indicies[c] + 1].timestamp = ts

\* the loop over the timestamps starts a candidate that every stream contains,
\* after every cursor has moved
CursorAtFirstNotLessWitness ==
  /\ fn = "multicam"
  /\ SortedInput
  /\ pc = "for"
  /\ HasTs
  /\ ~Skipped(ts)
  /\ \A c \in Cams : grid_indicies[c] >= 1

====
